---- MODULE Spec2Model ----
(***************************************************************************)
(* Model of the bounded linear undo/redo store of the image editor         *)
(* (src/history_manager.py, class HistoryManager), of the controller that  *)
(* drives it (src/main.py, class ImageProcessingApp) and of the pixel      *)
(* primitives the controller calls (src/image_processor.py).               *)
(*                                                                         *)
(* The store is a Python list _history and an integer _current_index.      *)
(* Python lists are 0-based and TLA+ sequences 1-based: current_index      *)
(* keeps the source's 0-based value, so the snapshot it designates is      *)
(* history[current_index + 1].                                             *)
(***************************************************************************)
EXTENDS Integers, Sequences, FiniteSets, TLC

\* Largest max_history a store is constructed with.
MaxCap == 3

\* Longest run of consecutive add_state calls on a fresh store that the
\* commit log follows.
MaxCommits == 5

\* Image buffers (numpy arrays), compared by value. A buffer is written as
\* the sequence of what produced it: the pixels it was created with, then
\* the primitives applied to them, in order.
Images == {<<"A">>, <<"B">>, <<"C">>, <<"D">>, <<"E">>}

\* Python's None (in a place that otherwise holds a buffer: no buffer).
None == <<>>

VARIABLES
    history,        \* HistoryManager._history
    current_index,  \* HistoryManager._current_index
    max_history,    \* HistoryManager._max_history
    last,           \* the most recent call: method, argument, result, and
                    \* the store as it was when the call was made
    committed,      \* arguments of the add_state calls made so far, while
                    \* nothing but add_state was called on the fresh store
    tracking,       \* TRUE while committed is being followed
    newest,         \* argument of the latest add_state since the last clear
    pc,             \* scenario: number of scripted calls made
    script,         \* scenario: what the scripted calls start from (the five
                    \* snapshots A, B, C, D, E; or the store a run of undo
                    \* and redo calls starts on)
    current_image,  \* ImageProcessingApp._current_image
    original_image, \* ImageProcessingApp._original_image
    filename,       \* ImageProcessingApp._filename
    blurScale,      \* value of ImageProcessingApp.blurScale
    brightnessScale,\* value of ImageProcessingApp.brightnessScale
    contrastScale,  \* value of ImageProcessingApp.contrastScale
    ev,             \* the most recent controller event: handler, argument,
                    \* and the controller and store as they were before it
    events,         \* number of controller events handled so far
    heap,           \* every buffer object created so far: object k is
                    \* heap[k], with the pixels it holds now
    refs,           \* the object that each element of _history is
    held            \* the objects a caller of the store has a reference to

store == <<history, current_index, max_history>>
observer == <<last, committed, tracking, newest>>
scenario == <<pc, script>>
sliders == <<blurScale, brightnessScale, contrastScale>>
app == <<current_image, original_image, filename, sliders, ev, events>>
objects == <<heap, refs, held>>
vars == <<history, current_index, max_history, last, committed, tracking,
          newest, pc, script, current_image, original_image, filename,
          blurScale, brightnessScale, contrastScale, ev, events,
          heap, refs, held>>

----------------------------------------------------------------------------
(* Queries: HistoryManager.can_undo, can_redo, get_current_state,          *)
(* get_first_state, get_history_size, get_current_index.                   *)

\* Faulty variant of can_undo.
can_undo_inclusive == current_index >= 0

can_undo == current_index > 0

can_redo == current_index < Len(history) - 1

get_current_state ==
    IF 0 <= current_index /\ current_index < Len(history)
    THEN history[current_index + 1]
    ELSE None

get_first_state ==
    IF Len(history) > 0 THEN history[1] ELSE None

get_history_size == Len(history)

get_current_index == current_index

----------------------------------------------------------------------------
(* What a call records about itself: the method, its argument, its result  *)
(* and the store (with the answers of can_undo/can_redo) before the call.  *)

Call(op, arg, ret) ==
    [op |-> op, arg |-> arg, ret |-> ret,
     pre_history |-> history, pre_index |-> current_index,
     pre_can_undo |-> can_undo, pre_can_redo |-> can_redo]

\* HistoryManager.__init__
InitStore ==
    /\ history = <<>>
    /\ current_index = -1
    /\ max_history \in 1..MaxCap

InitObserver ==
    /\ last = [op |-> "__init__", arg |-> None, ret |-> None,
               pre_history |-> <<>>, pre_index |-> -1,
               pre_can_undo |-> FALSE, pre_can_redo |-> FALSE]
    /\ committed = <<>>
    /\ tracking = TRUE
    /\ newest = None

----------------------------------------------------------------------------
(* add_state, statement by statement.                                      *)

\* Faulty variants of the statements below, one fault each.
TruncatedNever(h, i) == h

TruncatedOffByOne(h, i) ==
    IF i < Len(h) - 1 THEN SubSeq(h, 1, i + 2) ELSE h

OverCapacityOffByOne(h, cap) == Len(h) > cap + 1

PoppedNewest(h) == SubSeq(h, 1, Len(h) - 1)

OverCapacityInclusive(h, cap) == Len(h) >= cap

AdvancedNot(i) == i

RetreatedNot(i) == i

\* lines 36-37: drop the states after the current index
Truncated(h, i) ==
    IF i < Len(h) - 1 THEN SubSeq(h, 1, i + 1) ELSE h

\* line 40: append a copy of the new state
Appended(h, s) == Append(h, s)

\* line 41
Advanced(i) == i + 1

\* line 44: the size test
OverCapacity(h, cap) == Len(h) > cap

\* line 45: pop(0)
Popped(h) == Tail(h)

\* line 46
Retreated(i) == i - 1

\* lines 36-46: the list and the cursor that add_state leaves, from the
\* list h, the cursor i and the capacity cap it finds.
add_state_fields(h, i, cap, image_state) ==
    LET h1 == Truncated(h, i)
        h2 == Appended(h1, image_state)
        i2 == Advanced(i)
    IN  IF OverCapacity(h2, cap)
        THEN [history |-> Popped(h2), current_index |-> Retreated(i2)]
        ELSE [history |-> h2, current_index |-> i2]

add_state(image_state) ==
    LET after == add_state_fields(history, current_index, max_history,
                                  image_state)
    IN  /\ history' = after.history
        /\ current_index' = after.current_index
        /\ UNCHANGED max_history
        /\ last' = Call("add_state", image_state, None)
        /\ IF tracking /\ Len(committed) < MaxCommits
           THEN /\ committed' = Append(committed, image_state)
                /\ UNCHANGED tracking
           ELSE /\ committed' = <<>>
                /\ tracking' = FALSE
        /\ newest' = image_state

\* add_state with an argument that has no copy() (None, or anything that is
\* not a buffer): lines 36-37 run, then line 40 raises and lines 40-46 do
\* not run.
add_state_raises ==
    /\ history' = Truncated(history, current_index)
    /\ UNCHANGED <<current_index, max_history, newest>>
    /\ last' = Call("add_state_raised", None, None)
    /\ committed' = <<>>
    /\ tracking' = FALSE

----------------------------------------------------------------------------
(* undo and redo.                                                          *)

\* Faulty variants of the two guards.
UndoGuardOffByOne(i) == i > 1

\* Faulty variant of undo_index: undo steps back two snapshots when it can.
undo_index_by_two ==
    IF current_index > 1 THEN current_index - 2
    ELSE IF current_index > 0 THEN current_index - 1
    ELSE current_index

\* Faulty variant of undo_result: the snapshot undo left is returned.
undo_result_stale ==
    IF current_index > 0 THEN history[current_index + 1] ELSE None

RedoGuardOffByOne(h, i) == i < Len(h) - 2

\* line 55
UndoGuard(i) == i > 0

\* line 67
RedoGuard(h, i) == i < Len(h) - 1

\* lines 56-58: the cursor and the value returned
undo_index == IF UndoGuard(current_index) THEN current_index - 1
                                          ELSE current_index

undo_result == IF UndoGuard(current_index) THEN history[undo_index + 1]
                                           ELSE None

\* lines 68-70
redo_index == IF RedoGuard(history, current_index) THEN current_index + 1
                                                   ELSE current_index

redo_result == IF RedoGuard(history, current_index) THEN history[redo_index + 1]
                                                    ELSE None

undo ==
    /\ current_index' = undo_index
    /\ last' = Call("undo", None, undo_result)
    /\ UNCHANGED <<history, max_history, newest>>
    /\ committed' = <<>>
    /\ tracking' = FALSE

redo ==
    /\ current_index' = redo_index
    /\ last' = Call("redo", None, redo_result)
    /\ UNCHANGED <<history, max_history, newest>>
    /\ committed' = <<>>
    /\ tracking' = FALSE

----------------------------------------------------------------------------
(* clear, and the calls of the two predicates.                             *)

\* Faulty variant of cleared: nothing is reset.
cleared_not == [history |-> history, current_index |-> current_index]

\* lines 96-97: the list and the cursor that clear leaves
cleared == [history |-> <<>>, current_index |-> -1]

clear ==
    /\ history' = cleared.history
    /\ current_index' = cleared.current_index
    /\ UNCHANGED max_history
    /\ last' = Call("clear", None, None)
    /\ committed' = <<>>
    /\ tracking' = TRUE
    /\ newest' = None

CanUndoCall ==
    /\ last' = Call("can_undo", None, can_undo)
    /\ UNCHANGED <<store, newest>>
    /\ committed' = <<>>
    /\ tracking' = FALSE

CanRedoCall ==
    /\ last' = Call("can_redo", None, can_redo)
    /\ UNCHANGED <<store, newest>>
    /\ committed' = <<>>
    /\ tracking' = FALSE

----------------------------------------------------------------------------
(* ImageProcessingApp.__init__: no image, sliders at the values set when   *)
(* the widgets are created.                                                *)

Event(name, arg, ok) ==
    [name |-> name, arg |-> arg, ok |-> ok,
     pre_image |-> current_image,
     pre_history |-> history, pre_index |-> current_index,
     pre_blur |-> blurScale, pre_brightness |-> brightnessScale,
     pre_contrast |-> contrastScale, pre_filename |-> filename]

InitApp ==
    /\ current_image = None
    /\ original_image = None
    /\ filename = ""
    /\ blurScale = 1
    /\ brightnessScale = 0
    /\ contrastScale = 0
    /\ ev = [name |-> "__init__", arg |-> 0, ok |-> TRUE,
             pre_image |-> None,
             pre_history |-> <<>>, pre_index |-> -1,
             pre_blur |-> 1, pre_brightness |-> 0,
             pre_contrast |-> 0, pre_filename |-> ""]
    /\ events = 0

\* No buffer object exists yet.
InitObjects ==
    /\ heap = <<>>
    /\ refs = <<>>
    /\ held = {}

----------------------------------------------------------------------------
(* Specification Spec: a store constructed with any max_history in         *)
(* 1..MaxCap, then any sequence of calls.                                  *)

Init ==
    /\ InitStore
    /\ InitObserver
    /\ pc = 0
    /\ script = <<>>
    /\ InitApp
    /\ InitObjects

Next ==
    \/ \E image_state \in Images : add_state(image_state) /\ UNCHANGED <<scenario, app, objects>>
    \/ add_state_raises /\ UNCHANGED <<scenario, app, objects>>
    \/ undo /\ UNCHANGED <<scenario, app, objects>>
    \/ redo /\ UNCHANGED <<scenario, app, objects>>
    \/ clear /\ UNCHANGED <<scenario, app, objects>>
    \/ CanUndoCall /\ UNCHANGED <<scenario, app, objects>>
    \/ CanRedoCall /\ UNCHANGED <<scenario, app, objects>>

Spec == Init /\ [][Next]_vars

----------------------------------------------------------------------------
(* Specification ScenarioSpec: the scripted run on a fresh store of        *)
(* capacity 3, for any five snapshots A, B, C, D, E:                       *)
(*   add_state(A), add_state(B), add_state(C), add_state(D),               *)
(*   undo(), undo(), add_state(E), redo().                                 *)

A == script[1]
B == script[2]
C == script[3]
D == script[4]
E == script[5]

ScenarioInit ==
    /\ history = <<>>
    /\ current_index = -1
    /\ max_history = 3
    /\ InitObserver
    /\ pc = 0
    /\ script \in [1..5 -> Images]
    /\ InitApp
    /\ InitObjects

ScenarioAdd ==
    /\ pc \in {0, 1, 2, 3, 6}
    /\ add_state(IF pc = 6 THEN E ELSE script[pc + 1])
    /\ pc' = pc + 1
    /\ UNCHANGED <<script, app, objects>>

ScenarioUndo ==
    /\ pc \in {4, 5}
    /\ undo
    /\ pc' = pc + 1
    /\ UNCHANGED <<script, app, objects>>

ScenarioRedo ==
    /\ pc = 7
    /\ redo
    /\ pc' = pc + 1
    /\ UNCHANGED <<script, app, objects>>

ScenarioNext == ScenarioAdd \/ ScenarioUndo \/ ScenarioRedo

ScenarioSpec == ScenarioInit /\ [][ScenarioNext]_vars

----------------------------------------------------------------------------
(* Pixel primitives: src/image_processor.py, class ImageProcessor. Each    *)
(* returns a new buffer, written as its argument followed by the OpenCV    *)
(* operation performed on it, or raises ValueError.                        *)

Returned(image) == [raised |-> FALSE, image |-> image]

RaisedValueError == [raised |-> TRUE, image |-> None]

grayscale(image) == Append(image, <<"cvtColor_GRAY">>)

\* Faulty variant of blur_kernel_size: an even size is not promoted.
blur_kernel_size_unpromoted(intensity) ==
    IF intensity > 1 THEN intensity ELSE 1

\* lines 42-46: the kernel size is made positive and odd
blur_kernel_size(intensity) ==
    LET kernel_size == IF intensity > 1 THEN intensity ELSE 1
    IN  IF kernel_size % 2 = 0 THEN kernel_size + 1 ELSE kernel_size

blur(image, intensity) ==
    Append(image, <<"GaussianBlur", blur_kernel_size(intensity)>>)

edge_detection(image) == Append(image, <<"Canny", 100, 200>>)

\* lines 83-96: V channel of the HSV image plus value (cv2.add), or minus
\* abs(value) (cv2.subtract)
adjust_brightness(image, value) ==
    IF value >= 0 THEN Append(image, <<"hsv_add", value>>)
                  ELSE Append(image, <<"hsv_subtract", 0 - value>>)

\* lines 112-113: alpha = max(0.5, min(3.0, 1.0 + value / 100.0)), kept in
\* hundredths
contrast_alpha(value) ==
    LET alpha == 100 + value
        capped == IF alpha < 300 THEN alpha ELSE 300
    IN  IF capped > 50 THEN capped ELSE 50

adjust_contrast(image, value) ==
    Append(image, <<"convertScaleAbs", contrast_alpha(value)>>)

\* Faulty variant of rotate: the angle is not checked.
rotate_unchecked(image, angle) ==
    Returned(Append(image, <<"rotate", angle>>))

rotate(image, angle) ==
    IF angle = 90 THEN Returned(Append(image, <<"rotate", 90>>))
    ELSE IF angle = 180 THEN Returned(Append(image, <<"rotate", 180>>))
    ELSE IF angle = 270 THEN Returned(Append(image, <<"rotate", 270>>))
    ELSE RaisedValueError

\* cv2.flip(image, 1) for "horizontal", cv2.flip(image, 0) for "vertical"
flip(image, direction) ==
    IF direction = "horizontal" THEN Returned(Append(image, <<"flip", 1>>))
    ELSE IF direction = "vertical" THEN Returned(Append(image, <<"flip", 0>>))
    ELSE RaisedValueError

resize(image, scale_percent) ==
    IF scale_percent <= 0 THEN RaisedValueError
    ELSE Returned(Append(image, <<"resize", scale_percent>>))

----------------------------------------------------------------------------
(* What the controller's events are fed with.                              *)

\* cv2.imread: the buffer decoded from a file, None when it cannot be.
imread(name) ==
    IF name = "a.png" THEN <<"A">>
    ELSE IF name = "b.png" THEN <<"B">>
    ELSE None

\* What the file dialog returns: a path, or "" when it is cancelled.
DialogAnswers == {"", "a.png", "b.png", "notes.txt"}

\* Values a slider is moved to (blurScale: 1..50, the other two -100..100).
BlurValues == {1, 4, 7}
BrightnessValues == {-30, 0, 20}
ContrastValues == {-10, 0}

\* Arguments rotateImage and flipImage are called with.
Angles == {90, 45}
Directions == {"horizontal", "diagonal"}

\* Texts of the resize entry, and float() of each.
ResizeTexts == {"50", "0", "abc"}

float(text) ==
    IF text = "50" THEN [raised |-> FALSE, value |-> 50]
    ELSE IF text = "0" THEN [raised |-> FALSE, value |-> 0]
    ELSE [raised |-> TRUE, value |-> 0]

\* Longest run of controller events followed.
MaxEvents == 5

----------------------------------------------------------------------------
(* The controller: src/main.py, class ImageProcessingApp. One action per   *)
(* event handler. A slider's handler runs when the slider is moved, with   *)
(* the slider already at its new value.                                    *)

rest == <<max_history, observer, scenario, objects>>

\* Faulty variant of resetAdjustments: the contrast slider is forgotten.
resetAdjustments_brightness_only ==
    /\ brightnessScale' = 0
    /\ UNCHANGED contrastScale

\* resetAdjustments (lines 538-541)
resetAdjustments ==
    /\ brightnessScale' = 0
    /\ contrastScale' = 0

\* resetAdjustments() followed by blurScale.set(1), as the handlers do
ResetSliders ==
    /\ resetAdjustments
    /\ blurScale' = 1

\* updateImage (lines 667-691)
updateImage(processed_image) ==
    LET after == add_state_fields(history, current_index, max_history,
                                  processed_image)
    IN  /\ current_image' = processed_image
        /\ original_image' = processed_image
        /\ history' = after.history
        /\ current_index' = after.current_index
        /\ ResetSliders
        /\ UNCHANGED filename

\* A handler that returns early, or whose exception is caught and shown in
\* a message box: nothing of the controller or the store changes.
NothingChanges ==
    UNCHANGED <<history, current_index, current_image, original_image,
                filename, sliders>>

\* Faulty variant of openImage: the loaded image is not committed.
openImage_uncommitted(chosen) ==
    LET image == imread(chosen)
    IN  /\ IF chosen # "" /\ image # None
           THEN /\ current_image' = image
                /\ original_image' = image
                /\ filename' = chosen
                /\ history' = cleared.history
                /\ current_index' = cleared.current_index
                /\ ResetSliders
                /\ ev' = Event("openImage", chosen, TRUE)
           ELSE /\ NothingChanges
                /\ ev' = Event("openImage", chosen, FALSE)
        /\ UNCHANGED rest

\* Faulty variant of openImage: the history is cleared before the file is
\* decoded.
openImage_clears_first(chosen) ==
    LET image == imread(chosen)
        after == add_state_fields(cleared.history, cleared.current_index,
                                  max_history, image)
    IN  /\ IF chosen # "" /\ image # None
           THEN /\ current_image' = image
                /\ original_image' = image
                /\ filename' = chosen
                /\ history' = after.history
                /\ current_index' = after.current_index
                /\ ResetSliders
                /\ ev' = Event("openImage", chosen, TRUE)
           ELSE /\ IF chosen # ""
                   THEN /\ history' = cleared.history
                        /\ current_index' = cleared.current_index
                   ELSE UNCHANGED <<history, current_index>>
                /\ UNCHANGED <<current_image, original_image, filename,
                               sliders>>
                /\ ev' = Event("openImage", chosen, FALSE)
        /\ UNCHANGED rest

\* openImage (lines 235-276)
openImage(chosen) ==
    LET image == imread(chosen)
        after == add_state_fields(cleared.history, cleared.current_index,
                                  max_history, image)
    IN  /\ IF chosen # "" /\ image # None
           THEN /\ current_image' = image
                /\ original_image' = image
                /\ filename' = chosen
                /\ history' = after.history
                /\ current_index' = after.current_index
                /\ ResetSliders
                /\ ev' = Event("openImage", chosen, TRUE)
           ELSE /\ NothingChanges
                /\ ev' = Event("openImage", chosen, FALSE)
        /\ UNCHANGED rest

\* Faulty variant of applyGrayscale: the test for a loaded image is missing.
applyGrayscale_unguarded ==
    /\ updateImage(grayscale(current_image))
    /\ ev' = Event("applyGrayscale", 0, TRUE)
    /\ UNCHANGED rest

\* applyGrayscale (lines 377-389)
applyGrayscale ==
    /\ IF current_image = None
       THEN /\ NothingChanges
            /\ ev' = Event("applyGrayscale", 0, FALSE)
       ELSE /\ updateImage(grayscale(current_image))
            /\ ev' = Event("applyGrayscale", 0, TRUE)
    /\ UNCHANGED rest

\* applyEdgeDetection (lines 442-454)
applyEdgeDetection ==
    /\ IF current_image = None
       THEN /\ NothingChanges
            /\ ev' = Event("applyEdgeDetection", 0, FALSE)
       ELSE /\ updateImage(edge_detection(current_image))
            /\ ev' = Event("applyEdgeDetection", 0, TRUE)
    /\ UNCHANGED rest

\* rotateImage (lines 543-560)
rotateImage(angle) ==
    /\ IF current_image = None
       THEN /\ NothingChanges
            /\ ev' = Event("rotateImage", angle, FALSE)
       ELSE LET processed == rotate(current_image, angle)
            IN  IF processed.raised
                THEN /\ NothingChanges
                     /\ ev' = Event("rotateImage", angle, FALSE)
                ELSE /\ updateImage(processed.image)
                     /\ ev' = Event("rotateImage", angle, TRUE)
    /\ UNCHANGED rest

\* flipImage (lines 562-579)
flipImage(direction) ==
    /\ IF current_image = None
       THEN /\ NothingChanges
            /\ ev' = Event("flipImage", direction, FALSE)
       ELSE LET processed == flip(current_image, direction)
            IN  IF processed.raised
                THEN /\ NothingChanges
                     /\ ev' = Event("flipImage", direction, FALSE)
                ELSE /\ updateImage(processed.image)
                     /\ ev' = Event("flipImage", direction, TRUE)
    /\ UNCHANGED rest

\* resizeImage (lines 581-602); text is what the resize entry holds
resizeImage(text) ==
    /\ IF current_image = None
       THEN /\ NothingChanges
            /\ ev' = Event("resizeImage", text, FALSE)
       ELSE LET scale == float(text)
            IN  IF scale.raised \/ scale.value <= 0
                THEN /\ NothingChanges
                     /\ ev' = Event("resizeImage", text, FALSE)
                ELSE LET processed == resize(current_image, scale.value)
                     IN  IF processed.raised
                         THEN /\ NothingChanges
                              /\ ev' = Event("resizeImage", text, FALSE)
                         ELSE /\ updateImage(processed.image)
                              /\ ev' = Event("resizeImage", text, TRUE)
    /\ UNCHANGED rest

\* applyBlur, lines 415-432: the image shown for the three slider values
applyBlur_processed(base_image, intensity, brightness, contrast) ==
    LET blurred ==
            IF intensity <= 1 THEN base_image
            ELSE blur(base_image,
                      IF intensity % 2 = 0 THEN intensity + 1 ELSE intensity)
        brightened ==
            IF brightness # 0 THEN adjust_brightness(blurred, brightness)
                              ELSE blurred
    IN  IF contrast # 0 THEN adjust_contrast(brightened, contrast)
                        ELSE brightened

\* adjustBrightness, lines 474-487
adjustBrightness_processed(base_image, blur_intensity, brightness, contrast) ==
    LET blurred ==
            IF blur_intensity > 1
            THEN blur(base_image,
                      IF blur_intensity % 2 = 0 THEN blur_intensity + 1
                                                ELSE blur_intensity)
            ELSE base_image
        processed == adjust_brightness(blurred, brightness)
    IN  IF contrast # 0 THEN adjust_contrast(processed, contrast)
                        ELSE processed

\* adjustContrast, lines 515-528
adjustContrast_processed(base_image, blur_intensity, brightness, contrast) ==
    LET blurred ==
            IF blur_intensity > 1
            THEN blur(base_image,
                      IF blur_intensity % 2 = 0 THEN blur_intensity + 1
                                                ELSE blur_intensity)
            ELSE base_image
        processed == adjust_contrast(blurred, contrast)
    IN  IF brightness # 0 THEN adjust_brightness(processed, brightness)
                          ELSE processed

\* Faulty variant of SliderFrame: the handler commits what it showed before.
SliderFrameCommitting ==
    LET after == add_state_fields(history, current_index, max_history,
                                  current_image)
    IN  /\ history' = after.history
        /\ current_index' = after.current_index
        /\ UNCHANGED <<original_image, filename>>

\* What a slider handler leaves alone: the store, the file name, the backup.
SliderFrame == UNCHANGED <<history, current_index, original_image, filename>>

\* applyBlur (lines 391-440), the blur slider moved to value
applyBlur(value) ==
    /\ blurScale' = value
    /\ UNCHANGED <<brightnessScale, contrastScale>>
    /\ SliderFrame
    /\ IF current_image = None \/ get_first_state = None
       THEN /\ UNCHANGED current_image
            /\ ev' = Event("applyBlur", value, FALSE)
       ELSE /\ current_image' = applyBlur_processed(get_first_state, value,
                                    brightnessScale, contrastScale)
            /\ ev' = Event("applyBlur", value, TRUE)
    /\ UNCHANGED rest

\* adjustBrightness (lines 456-495), the brightness slider moved to value.
\* With no first state the primitives raise on None and the handler's
\* except clause shows the error.
adjustBrightness(value) ==
    /\ brightnessScale' = value
    /\ UNCHANGED <<blurScale, contrastScale>>
    /\ SliderFrame
    /\ IF current_image = None \/ get_first_state = None
       THEN /\ UNCHANGED current_image
            /\ ev' = Event("adjustBrightness", value, FALSE)
       ELSE /\ current_image' = adjustBrightness_processed(get_first_state,
                                    blurScale, value, contrastScale)
            /\ ev' = Event("adjustBrightness", value, TRUE)
    /\ UNCHANGED rest

\* adjustContrast (lines 497-536), the contrast slider moved to value
adjustContrast(value) ==
    /\ contrastScale' = value
    /\ UNCHANGED <<blurScale, brightnessScale>>
    /\ SliderFrame
    /\ IF current_image = None \/ get_first_state = None
       THEN /\ UNCHANGED current_image
            /\ ev' = Event("adjustContrast", value, FALSE)
       ELSE /\ current_image' = adjustContrast_processed(get_first_state,
                                    blurScale, brightnessScale, value)
            /\ ev' = Event("adjustContrast", value, TRUE)
    /\ UNCHANGED rest

\* The "Reset Adjustments" button (line 161)
resetAdjustmentsButton ==
    /\ resetAdjustments
    /\ UNCHANGED <<history, current_index, current_image, original_image,
                   filename, blurScale>>
    /\ ev' = Event("resetAdjustments", 0, TRUE)
    /\ UNCHANGED rest

\* Faulty variant of ImageProcessingApp.undo: the sliders are reset also
\* when there was nothing to undo.
app_undo_always_resets ==
    /\ current_index' = undo_index
    /\ IF undo_result # None
       THEN /\ current_image' = undo_result
            /\ original_image' = undo_result
            /\ ev' = Event("undo", 0, TRUE)
       ELSE /\ UNCHANGED <<current_image, original_image>>
            /\ ev' = Event("undo", 0, FALSE)
    /\ ResetSliders
    /\ UNCHANGED <<history, filename>>
    /\ UNCHANGED rest

\* ImageProcessingApp.undo (lines 604-622)
app_undo ==
    /\ current_index' = undo_index
    /\ IF undo_result # None
       THEN /\ current_image' = undo_result
            /\ original_image' = undo_result
            /\ ResetSliders
            /\ ev' = Event("undo", 0, TRUE)
       ELSE /\ UNCHANGED <<current_image, original_image, sliders>>
            /\ ev' = Event("undo", 0, FALSE)
    /\ UNCHANGED <<history, filename>>
    /\ UNCHANGED rest

\* ImageProcessingApp.redo (lines 624-642)
app_redo ==
    /\ current_index' = redo_index
    /\ IF redo_result # None
       THEN /\ current_image' = redo_result
            /\ original_image' = redo_result
            /\ ResetSliders
            /\ ev' = Event("redo", 0, TRUE)
       ELSE /\ UNCHANGED <<current_image, original_image, sliders>>
            /\ ev' = Event("redo", 0, FALSE)
    /\ UNCHANGED <<history, filename>>
    /\ UNCHANGED rest

\* resetImage (lines 644-665); answer is what the yes/no box returns
resetImage(answer) ==
    /\ IF get_first_state # None /\ answer
       THEN /\ current_image' = get_first_state
            /\ original_image' = get_first_state
            /\ ResetSliders
            /\ ev' = Event("resetImage", answer, TRUE)
       ELSE /\ UNCHANGED <<current_image, original_image, sliders>>
            /\ ev' = Event("resetImage", answer, FALSE)
    /\ UNCHANGED <<history, current_index, filename>>
    /\ UNCHANGED rest

----------------------------------------------------------------------------------------------------------------------------------------
(* Specification AppSpec: the controller from its construction, under any  *)
(* sequence of at most MaxEvents events. The controller builds its store   *)
(* with the default max_history; the capacities 1..MaxCap are there too,   *)
(* so that eviction happens within MaxEvents. A slider event is the user   *)
(* moving the slider, so its value changes.                                *)

DefaultMaxHistory == 20

AppInit ==
    /\ history = <<>>
    /\ current_index = -1
    /\ max_history \in (1..MaxCap) \cup {DefaultMaxHistory}
    /\ InitObserver
    /\ pc = 0
    /\ script = <<>>
    /\ InitApp
    /\ InitObjects

\* One more event, within the first n.
Handled(n) ==
    /\ events < n
    /\ events' = events + 1

AppNext ==
    \/ \E chosen \in DialogAnswers : Handled(MaxEvents) /\ openImage(chosen)
    \/ Handled(MaxEvents) /\ applyGrayscale
    \/ Handled(MaxEvents) /\ applyEdgeDetection
    \/ \E angle \in Angles : Handled(MaxEvents) /\ rotateImage(angle)
    \/ \E direction \in Directions : Handled(MaxEvents) /\ flipImage(direction)
    \/ \E text \in ResizeTexts : Handled(MaxEvents) /\ resizeImage(text)
    \/ \E value \in BlurValues \ {blurScale} :
          Handled(MaxEvents) /\ applyBlur(value)
    \/ \E value \in BrightnessValues \ {brightnessScale} :
          Handled(MaxEvents) /\ adjustBrightness(value)
    \/ \E value \in ContrastValues \ {contrastScale} :
          Handled(MaxEvents) /\ adjustContrast(value)
    \/ Handled(MaxEvents) /\ resetAdjustmentsButton
    \/ Handled(MaxEvents) /\ app_undo
    \/ Handled(MaxEvents) /\ app_redo
    \/ \E answer \in BOOLEAN : Handled(MaxEvents) /\ resetImage(answer)

AppSpec == AppInit /\ [][AppNext]_vars

----------------------------------------------------------------------------
(* Specification LongSpec: the controller with the store it really builds  *)
(* (max_history = 20), followed for LongEvents events of opening a file,   *)
(* the Grayscale button, undo, redo and Reset: long enough for the store   *)
(* to fill up and evict.                                                   *)

LongEvents == 22

LongInit ==
    /\ history = <<>>
    /\ current_index = -1
    /\ max_history = DefaultMaxHistory
    /\ InitObserver
    /\ pc = 0
    /\ script = <<>>
    /\ InitApp
    /\ InitObjects

LongNext ==
    \/ Handled(LongEvents) /\ openImage("a.png")
    \/ Handled(LongEvents) /\ applyGrayscale
    \/ Handled(LongEvents) /\ app_undo
    \/ Handled(LongEvents) /\ app_redo
    \/ Handled(LongEvents) /\ resetImage(TRUE)

LongSpec == LongInit /\ [][LongNext]_vars

----------------------------------------------------------------------------
(* Specification BlurSpec: the controller for BlurEvents events of opening *)
(* a file and then moving the blur slider to any value of its range, and   *)
(* ImageProcessor.blur called with any intensity in and around that range. *)

\* The blur slider's range: Scale(from_=1, to=50).
BlurScaleFrom == 1
BlurScaleTo == 50

\* How far outside the blur slider's range the intensities given to
\* ImageProcessor.blur go.
Outside == 3

Intensities == (BlurScaleFrom - Outside)..(BlurScaleTo + Outside)

\* Longest run of controller events followed in BlurSpec.
BlurEvents == 2

\* ImageProcessor.blur(image, intensity) called on its own
blur_call(image, intensity) ==
    /\ last' = Call("blur", intensity, blur(image, intensity))
    /\ UNCHANGED <<store, committed, tracking, newest, scenario, app, objects>>

BlurNext ==
    \/ Handled(BlurEvents) /\ openImage("a.png")
    \/ \E value \in (BlurScaleFrom..BlurScaleTo) \ {blurScale} :
          filename # "" /\ Handled(BlurEvents) /\ applyBlur(value)
    \/ \E intensity \in Intensities : blur_call(imread("a.png"), intensity)

BlurSpec == LongInit /\ [][BlurNext]_vars

----------------------------------------------------------------------------
(* Specification ContrastSpec: ImageProcessor.adjust_contrast called with  *)
(* any integer in and around the declared range of the contrast value.     *)

\* The declared range of the contrast value: Scale(from_=-100, to=100).
ContrastFrom == -100
ContrastTo == 100

\* How far outside the declared range the values given to adjust_contrast
\* go.
Far == 120

ContrastArguments == (ContrastFrom - Far)..(ContrastTo + Far)

\* ImageProcessor.adjust_contrast(image, value) called on its own
adjust_contrast_call(image, value) ==
    /\ last' = Call("adjust_contrast", value, adjust_contrast(image, value))
    /\ UNCHANGED <<store, committed, tracking, newest, scenario, app, objects>>

ContrastNext ==
    \E image \in {imread("a.png"), imread("b.png")} :
        \E value \in ContrastArguments : adjust_contrast_call(image, value)

ContrastSpec == LongInit /\ [][ContrastNext]_vars

----------------------------------------------------------------------------
(* Specification AliasSpec: the store with its buffers as objects. A numpy *)
(* array is an object that its holders can write into; copy() makes a new  *)
(* object with the same pixels. heap lists the objects, refs says which    *)
(* object each element of _history is, and held is what the caller has a   *)
(* reference to: the buffers it created, passed to add_state or got back   *)
(* from the store. history keeps the pixels each snapshot was committed    *)
(* with.                                                                   *)

\* Most buffer objects created in a run.
MaxObjects == 5

\* Pixels a caller fills its buffers with.
Pixels == {<<"A">>, <<"B">>}

\* A new object: its pixels, and the object it is a copy() of (0: of none).
Object(pixels, copy_of) == [pixels |-> pixels, copy_of |-> copy_of]

\* The object that copy() of object o creates, and its identity.
copy(o) == Object(heap[o].pixels, o)

fresh == Len(heap) + 1

\* Faulty variant of stored_object: the argument itself is stored.
stored_object_alias(image_state, its_copy) == image_state

\* line 40: what add_state appends is image_state.copy()
stored_object(image_state, its_copy) == its_copy

\* lines 57, 69, 80, 91: what a read returns is the snapshot's copy()
returned_object(snapshot, its_copy) == its_copy

\* The caller creates a buffer.
caller_creates(pixels) ==
    /\ Len(heap) < MaxObjects
    /\ heap' = Append(heap, Object(pixels, 0))
    /\ held' = held \cup {fresh}
    /\ UNCHANGED <<refs, store, observer>>

\* The caller writes into a buffer it holds (image[:] = pixels).
caller_writes(o, pixels) ==
    /\ heap[o].pixels # pixels
    /\ heap' = [heap EXCEPT ![o].pixels = pixels]
    /\ UNCHANGED <<refs, held, store, observer>>

\* add_state(image_state), image_state being object o
add_state_object(o) ==
    /\ Len(heap) < MaxObjects
    /\ add_state(heap[o].pixels)
    /\ heap' = Append(heap, copy(o))
    /\ refs' = add_state_fields(refs, current_index, max_history,
                                stored_object(o, fresh)).history
    /\ UNCHANGED held

\* A read that returns the snapshot at list index i (0-based), or None when
\* found is FALSE.
returns_snapshot(found, i) ==
    IF found
    THEN /\ Len(heap) < MaxObjects
         /\ heap' = Append(heap, copy(refs[i + 1]))
         /\ held' = held \cup {returned_object(refs[i + 1], fresh)}
         /\ UNCHANGED refs
    ELSE UNCHANGED <<heap, refs, held>>

undo_object ==
    /\ undo
    /\ returns_snapshot(UndoGuard(current_index), undo_index)

redo_object ==
    /\ redo
    /\ returns_snapshot(RedoGuard(history, current_index), redo_index)

get_current_state_object ==
    /\ last' = Call("get_current_state", None, get_current_state)
    /\ UNCHANGED <<store, newest>>
    /\ committed' = <<>>
    /\ tracking' = FALSE
    /\ returns_snapshot(0 <= current_index /\ current_index < Len(history),
                        current_index)

get_first_state_object ==
    /\ last' = Call("get_first_state", None, get_first_state)
    /\ UNCHANGED <<store, newest>>
    /\ committed' = <<>>
    /\ tracking' = FALSE
    /\ returns_snapshot(Len(history) > 0, 0)

AliasInit ==
    /\ InitStore
    /\ InitObserver
    /\ pc = 0
    /\ script = <<>>
    /\ InitApp
    /\ InitObjects

AliasNext ==
    \/ \E pixels \in Pixels : caller_creates(pixels) /\ UNCHANGED <<scenario, app>>
    \/ \E o \in held : \E pixels \in Pixels :
          caller_writes(o, pixels) /\ UNCHANGED <<scenario, app>>
    \/ \E o \in held : add_state_object(o) /\ UNCHANGED <<scenario, app>>
    \/ undo_object /\ UNCHANGED <<scenario, app>>
    \/ redo_object /\ UNCHANGED <<scenario, app>>
    \/ get_current_state_object /\ UNCHANGED <<scenario, app>>
    \/ get_first_state_object /\ UNCHANGED <<scenario, app>>

AliasSpec == AliasInit /\ [][AliasNext]_vars

----------------------------------------------------------------------------
(* Specification RunSpec: any sequence of add_state, undo, redo and clear  *)
(* calls on a store of capacity 1..MaxCap, followed by one run of          *)
(* consecutive calls: undo then redo, redo then undo, undo repeated, or    *)
(* redo repeated. script remembers the store the run started on and pc     *)
(* counts the calls of the run.                                            *)

\* Calls made in a repeated run after the last one that can succeed.
RunBeyond == 2

Runs == {"undo_redo", "redo_undo", "undos", "redos"}

\* The first call of a run of the given kind.
RunStarts(kind) ==
    /\ pc = 0
    /\ script' = [kind |-> kind, history |-> history, index |-> current_index]
    /\ pc' = 1
    /\ IF kind \in {"undo_redo", "undos"} THEN undo ELSE redo

\* The second call of a round trip.
RunReturns ==
    /\ pc = 1
    /\ script.kind \in {"undo_redo", "redo_undo"}
    /\ IF script.kind = "undo_redo" THEN redo ELSE undo
    /\ pc' = 2
    /\ UNCHANGED script

\* The next call of a repeated run.
RunRepeats ==
    /\ pc >= 1
    /\ script.kind \in {"undos", "redos"}
    /\ pc < Len(script.history) + RunBeyond
    /\ IF script.kind = "undos" THEN undo ELSE redo
    /\ pc' = pc + 1
    /\ UNCHANGED script

RunNext ==
    \/ \E image_state \in Pixels :
          pc = 0 /\ add_state(image_state) /\ UNCHANGED <<scenario, app, objects>>
    \/ pc = 0 /\ undo /\ UNCHANGED <<scenario, app, objects>>
    \/ pc = 0 /\ redo /\ UNCHANGED <<scenario, app, objects>>
    \/ pc = 0 /\ clear /\ UNCHANGED <<scenario, app, objects>>
    \/ can_undo /\ RunStarts("undo_redo") /\ UNCHANGED <<app, objects>>
    \/ can_redo /\ RunStarts("redo_undo") /\ UNCHANGED <<app, objects>>
    \/ \E kind \in {"undos", "redos"} :
          current_index >= 0 /\ RunStarts(kind) /\ UNCHANGED <<app, objects>>
    \/ RunReturns /\ UNCHANGED <<app, objects>>
    \/ RunRepeats /\ UNCHANGED <<app, objects>>

RunSpec == Init /\ [][RunNext]_vars

----------------------------------------------------------------------------
(* Properties of the store, checked under Spec.                            *)

\* The store as add_state leaves it after lines 36-41 when called with
\* last.arg on the store recorded in last: the snapshots up to the cursor,
\* then the new one.
KeptThenNew ==
    Append(SubSeq(last.pre_history, 1, last.pre_index + 1), last.arg)

\* C1: cursor invariant. After every sequence of add_state, undo, redo and
\* clear calls on a store with max_history >= 1,
\* -1 <= _current_index < len(_history), and _current_index = -1 exactly
\* when _history is empty.
CursorInvariant ==
    /\ -1 <= current_index
    /\ current_index < Len(history)
    /\ (current_index = -1) <=> (history = <<>>)

\* C1 witness: an add_state that evicted, on a full store with the cursor
\* at its end.
CursorInvariantWitness ==
    /\ last.op = "add_state"
    /\ Len(last.pre_history) = max_history
    /\ last.pre_index = max_history - 1
    /\ current_index = max_history - 1

\* C2: commit postcondition. Immediately after add_state(s), from any state
\* (also one reached by undo), len(_history) <= max_history,
\* _current_index = len(_history) - 1 and get_current_state() = s.
CommitPostcondition ==
    last.op = "add_state" =>
        /\ Len(history) <= max_history
        /\ current_index = Len(history) - 1
        /\ get_current_state = last.arg

\* C2 witness: an add_state made after an undo, with a redo branch pending.
CommitPostconditionWitness ==
    /\ last.op = "add_state"
    /\ last.pre_can_redo
    /\ get_current_state = last.arg

\* C3: add_state(s) with the cursor at c < len(_history) - 1 discards the
\* snapshots after c, keeps those at 0..c in order (less at most the oldest
\* one), puts s last, and leaves can_redo() False and redo() returning None.
CommitDiscardsRedoBranch ==
    (last.op = "add_state" /\ last.pre_index < Len(last.pre_history) - 1) =>
        /\ \/ history = KeptThenNew
           \/ history = Tail(KeptThenNew)
        /\ history[Len(history)] = last.arg
        /\ ~can_redo
        /\ redo_result = None

\* C3 witness: two snapshots were kept and at least one discarded.
CommitDiscardsRedoBranchWitness ==
    /\ last.op = "add_state"
    /\ last.pre_index = 1
    /\ Len(last.pre_history) = 3
    /\ history = <<last.pre_history[1], last.pre_history[2], last.arg>>
    /\ last.pre_history[3] # last.arg

\* The last n elements of a sequence.
LastN(s, n) == SubSeq(s, Len(s) - n + 1, Len(s))

\* C4: bounded capacity. With max_history = N, after N + k consecutive
\* add_state calls on a fresh store (k >= 0), len(_history) = N, _history
\* holds the last N committed snapshots in commit order and
\* get_current_state() is the (N+k)-th committed snapshot.
BoundedCapacity ==
    (tracking /\ Len(committed) >= max_history) =>
        /\ Len(history) = max_history
        /\ history = LastN(committed, max_history)
        /\ get_current_state = committed[Len(committed)]

\* C4 witness: k = 2 commits beyond a capacity of at least 2.
BoundedCapacityWitness ==
    /\ tracking
    /\ max_history >= 2
    /\ Len(committed) = max_history + 2
    /\ committed[1] # committed[Len(committed)]

\* C5: eviction. add_state removes the oldest snapshot if and only if the
\* length after truncation and append exceeds max_history; it removes
\* exactly that one snapshot, and the cursor then still designates the
\* snapshot just committed.
EvictionExact ==
    last.op = "add_state" =>
        /\ IF Len(KeptThenNew) > max_history
           THEN history = Tail(KeptThenNew)
           ELSE history = KeptThenNew
        /\ 0 <= current_index /\ current_index < Len(history)
        /\ history[current_index + 1] = last.arg

\* C5 witness: an eviction from a store of at least two snapshots, whose
\* oldest snapshot differs from the one that becomes oldest.
EvictionExactWitness ==
    /\ last.op = "add_state"
    /\ max_history >= 2
    /\ Len(KeptThenNew) = max_history + 1
    /\ history[1] = last.pre_history[2]
    /\ history[1] # last.pre_history[1]

\* C6: undo(). If _current_index > 0 it decrements _current_index by one and
\* returns the snapshot at the new index; otherwise it returns None and
\* leaves _current_index alone; _history is unchanged either way.
UndoContract ==
    last.op = "undo" =>
        /\ history = last.pre_history
        /\ IF last.pre_index > 0
           THEN /\ current_index = last.pre_index - 1
                /\ last.ret = history[current_index + 1]
           ELSE /\ current_index = last.pre_index
                /\ last.ret = None

\* C6 witness: a successful undo from the end of a store of three.
UndoContractWitness ==
    /\ last.op = "undo"
    /\ Len(history) = 3
    /\ last.pre_index = 2
    /\ last.ret = history[2]
    /\ history[2] # history[3]

\* C7: redo(). If _current_index < len(_history) - 1 it increments
\* _current_index by one and returns the snapshot at the new index; otherwise
\* it returns None and leaves _current_index alone; _history is unchanged
\* either way.
RedoContract ==
    last.op = "redo" =>
        /\ history = last.pre_history
        /\ IF last.pre_index < Len(last.pre_history) - 1
           THEN /\ current_index = last.pre_index + 1
                /\ last.ret = history[current_index + 1]
           ELSE /\ current_index = last.pre_index
                /\ last.ret = None

\* C7 witness: a successful redo from the start of a store of three.
RedoContractWitness ==
    /\ last.op = "redo"
    /\ Len(history) = 3
    /\ last.pre_index = 0
    /\ last.ret = history[2]
    /\ history[2] # history[1]

\* C8: in every reachable state can_undo() = (_current_index > 0) and
\* can_redo() = (_current_index < len(_history) - 1); calling either changes
\* nothing; and undo() (redo()) returns a snapshot rather than None exactly
\* when can_undo() (can_redo()) was True just before the call.
PredicatesAgree ==
    /\ can_undo <=> (current_index > 0)
    /\ can_redo <=> (current_index < Len(history) - 1)
    /\ last.op = "can_undo" =>
          /\ history = last.pre_history /\ current_index = last.pre_index
          /\ last.ret <=> (last.pre_index > 0)
    /\ last.op = "can_redo" =>
          /\ history = last.pre_history /\ current_index = last.pre_index
          /\ last.ret <=> (last.pre_index < Len(last.pre_history) - 1)
    /\ last.op = "undo" => ((last.ret # None) <=> last.pre_can_undo)
    /\ last.op = "redo" => ((last.ret # None) <=> last.pre_can_redo)

\* C8 witness: an undo made while can_undo() was True, leaving can_redo()
\* True.
PredicatesAgreeWitness ==
    /\ last.op = "undo"
    /\ last.pre_can_undo
    /\ last.ret # None
    /\ can_redo

\* C10: edge cases. add_state on an empty store sets the cursor to 0; undo
\* and redo on an empty or single-element store return None and change
\* nothing; with max_history = 1, once add_state was called since the last
\* clear, the store holds exactly the most recently committed snapshot and
\* can_undo() and can_redo() are False.
EdgeCases ==
    /\ (last.op = "add_state" /\ last.pre_history = <<>>) =>
          current_index = 0
    /\ (last.op \in {"undo", "redo"} /\ Len(last.pre_history) <= 1) =>
          /\ last.ret = None
          /\ history = last.pre_history
          /\ current_index = last.pre_index
    /\ (max_history = 1 /\ newest # None) =>
          /\ history = <<newest>>
          /\ ~can_undo
          /\ ~can_redo

\* C10 witness: capacity 1, a commit that replaced a different sole
\* snapshot.
EdgeCasesWitness ==
    /\ max_history = 1
    /\ last.op = "add_state"
    /\ Len(last.pre_history) = 1
    /\ last.pre_history[1] # newest
    /\ history = <<newest>>

\* C18: store mutations are atomic. If add_state fails because its argument
\* cannot be copied, the history sequence and the cursor are exactly as they
\* were before the call, also when the cursor was not at the end.
AddStateAtomic ==
    last.op = "add_state_raised" =>
        /\ history = last.pre_history
        /\ current_index = last.pre_index

----------------------------------------------------------------------------
(* The scripted run, checked under ScenarioSpec.                           *)

\* C9: capacity 3 on a fresh store. After add_state of A, B, C, D the
\* sequence is [B, C, D] with cursor 2; undo() gives cursor 1 and current C;
\* a second undo() gives cursor 0 and current B; add_state(E) gives [B, E]
\* with cursor 1; a following redo() returns None and changes nothing.
ScenarioTrace ==
    /\ pc = 4 => (history = <<B, C, D>> /\ current_index = 2)
    /\ pc = 5 => (current_index = 1 /\ get_current_state = C
                  /\ history = <<B, C, D>>)
    /\ pc = 6 => (current_index = 0 /\ get_current_state = B
                  /\ history = <<B, C, D>>)
    /\ pc = 7 => (history = <<B, E>> /\ current_index = 1)
    /\ pc = 8 => (last.op = "redo" /\ last.ret = None
                  /\ history = <<B, E>> /\ current_index = 1)

\* C9 witness: the end of the run, with five different snapshots.
ScenarioTraceWitness ==
    /\ pc = 8
    /\ Cardinality({A, B, C, D, E}) = 5
    /\ history = <<B, E>>

----------------------------------------------------------------------------
(* Properties of the controller, checked under AppSpec.                    *)

SliderHandlers == {"applyBlur", "adjustBrightness", "adjustContrast"}

DiscreteHandlers == {"applyGrayscale", "applyEdgeDetection", "rotateImage",
                     "flipImage", "resizeImage"}

SlidersAtDefault ==
    blurScale = 1 /\ brightnessScale = 0 /\ contrastScale = 0

\* The snapshot at the cursor before the latest event.
PreCurrentState ==
    IF 0 <= ev.pre_index /\ ev.pre_index < Len(ev.pre_history)
    THEN ev.pre_history[ev.pre_index + 1]
    ELSE None

\* The previews of an anchor for a slider triple that apply blur, then
\* brightness, then contrast; a primitive whose slider is at its neutral
\* value may be applied or left out.
OrderedPreviews(anchor, intensity, brightness, contrast) ==
    LET blurred == IF intensity > 1 THEN blur(anchor, intensity) ELSE anchor
        brightened == {adjust_brightness(blurred, brightness)}
                      \cup (IF brightness = 0 THEN {blurred} ELSE {})
    IN  {adjust_contrast(x, contrast) : x \in brightened}
        \cup (IF contrast = 0 THEN brightened ELSE {})

\* C11: the preview is order-independent. After any slider handler, the
\* image in _current_image is blur, then brightness, then contrast applied
\* to the anchor, whichever handler ran last.
PreviewOrderIndependent ==
    (ev.name \in SliderHandlers /\ ev.ok) =>
        current_image \in OrderedPreviews(get_first_state, blurScale,
                                          brightnessScale, contrastScale)

\* image is anchor followed by at most three more primitives.
BuiltOn(anchor, image) ==
    /\ Len(anchor) <= Len(image)
    /\ Len(image) <= Len(anchor) + 3
    /\ SubSeq(image, 1, Len(anchor)) = anchor

\* C12: anchor policy. Every slider preview is recomputed from the snapshot
\* at the history cursor, history.get_current_state().
AnchorIsCurrentCommit ==
    (ev.name \in SliderHandlers /\ ev.ok) =>
        BuiltOn(get_current_state, current_image)

\* The primitive of the latest discrete action, applied to image.
PrimitiveApplied(image) ==
    IF ev.name = "applyGrayscale" THEN grayscale(image)
    ELSE IF ev.name = "applyEdgeDetection" THEN edge_detection(image)
    ELSE IF ev.name = "rotateImage" THEN rotate(image, ev.arg).image
    ELSE IF ev.name = "flipImage" THEN flip(image, ev.arg).image
    ELSE resize(image, float(ev.arg).value).image

\* C13: a discrete action that succeeds commits exactly one snapshot, its
\* primitive applied to history.get_current_state() as it was before the
\* action.
DiscreteAppliesToCommitted ==
    (ev.name \in DiscreteHandlers /\ ev.ok) =>
        /\ get_current_state = PrimitiveApplied(PreCurrentState)
        /\ current_index = Len(history) - 1

\* C14: the store is the single source of truth. Whenever the three sliders
\* are at their defaults, _current_image = history.get_current_state().
HistoryIsSourceOfTruth ==
    SlidersAtDefault => current_image = get_current_state

\* C15: slider moves never touch history. A run of applyBlur,
\* adjustBrightness or adjustContrast leaves the history sequence and the
\* cursor exactly as they were.
SliderLeavesHistory ==
    ev.name \in SliderHandlers =>
        /\ history = ev.pre_history
        /\ current_index = ev.pre_index

\* C15 witness: a slider changed the working image while the store held two
\* snapshots.
SliderLeavesHistoryWitness ==
    /\ ev.name \in SliderHandlers
    /\ ev.ok
    /\ current_image # ev.pre_image
    /\ Len(history) = 2
    /\ current_index = 1

\* C17: a preview with all parameters at default is the anchor itself.
\* When a slider handler runs with blur = 1, brightness = 0 and
\* contrast = 0, the working image is an unmodified copy of the anchor, no
\* primitive applied.
DefaultPreviewIsAnchor ==
    (ev.name \in SliderHandlers /\ ev.ok /\ SlidersAtDefault) =>
        current_image = get_first_state

\* The latest event changed nothing of the store, the working image or the
\* sliders.
EventChangedNothing ==
    /\ history = ev.pre_history
    /\ current_index = ev.pre_index
    /\ current_image = ev.pre_image
    /\ blurScale = ev.pre_blur
    /\ brightnessScale = ev.pre_brightness
    /\ contrastScale = ev.pre_contrast

\* C19: domain errors leave the store untouched. rotate with an angle
\* outside {90, 180, 270}, flip with a direction other than 'horizontal' or
\* 'vertical' and resize with scale_percent <= 0 raise ValueError; a
\* rotateImage, flipImage or resizeImage that hits such an error leaves the
\* history sequence, the cursor, the working image and the sliders as they
\* were.
DomainErrorsChangeNothing ==
    /\ (ev.name = "rotateImage" /\ ev.arg \notin {90, 180, 270}) =>
          /\ rotate(ev.pre_image, ev.arg).raised
          /\ ~ev.ok
          /\ EventChangedNothing
    /\ (ev.name = "flipImage" /\ ev.arg \notin {"horizontal", "vertical"}) =>
          /\ flip(ev.pre_image, ev.arg).raised
          /\ ~ev.ok
          /\ EventChangedNothing
    /\ (ev.name = "resizeImage" /\ ~float(ev.arg).raised
          /\ float(ev.arg).value <= 0) =>
          /\ resize(ev.pre_image, float(ev.arg).value).raised
          /\ ~ev.ok
          /\ EventChangedNothing

\* C19 witness: rotateImage(45) on a loaded image with a preview showing and
\* an undo available.
DomainErrorsChangeNothingWitness ==
    /\ ev.name = "rotateImage"
    /\ ev.arg = 45
    /\ ev.pre_image # None
    /\ brightnessScale = 20
    /\ current_index = 1

HistoryTransitions == DiscreteHandlers \cup {"openImage", "undo", "redo",
                                             "resetImage"}

\* C20: parameters are reset on every history transition. Right after a
\* successful openImage, discrete action, undo or redo, or a confirmed
\* resetImage, the sliders hold blur 1, brightness 0, contrast 0.
SlidersResetOnTransition ==
    (ev.name \in HistoryTransitions /\ ev.ok) => SlidersAtDefault

\* C20 witness: a successful undo made with the blur and contrast sliders
\* away from their defaults.
SlidersResetOnTransitionWitness ==
    /\ ev.name = "undo"
    /\ ev.ok
    /\ ev.pre_blur = 4
    /\ ev.pre_contrast = -10
    /\ SlidersAtDefault

\* C21: controller undo and redo. When history.undo() (history.redo())
\* returns a snapshot, the working image becomes that snapshot; when it
\* returns None (empty store, cursor at 0 for undo, cursor at the end for
\* redo), the working image, the sliders, the history sequence and the
\* cursor are all as before.
ControllerUndoRedo ==
    /\ ev.name = "undo" =>
          IF ev.pre_index > 0
          THEN /\ ev.ok
               /\ current_image = ev.pre_history[ev.pre_index]
               /\ current_index = ev.pre_index - 1
               /\ history = ev.pre_history
          ELSE /\ ~ev.ok
               /\ EventChangedNothing
    /\ ev.name = "redo" =>
          IF ev.pre_index < Len(ev.pre_history) - 1
          THEN /\ ev.ok
               /\ current_image = ev.pre_history[ev.pre_index + 2]
               /\ current_index = ev.pre_index + 1
               /\ history = ev.pre_history
          ELSE /\ ~ev.ok
               /\ EventChangedNothing

\* C21 witness: an undo with the cursor at 0 of a store of two snapshots,
\* made while a preview was showing.
ControllerUndoRedoWitness ==
    /\ ev.name = "undo"
    /\ ev.pre_index = 0
    /\ Len(history) = 2
    /\ brightnessScale = 20
    /\ current_image # get_current_state

\* C22: empty-state no-ops. While no image has been loaded (history empty,
\* cursor -1, working image None), every slider handler, every discrete
\* action, undo, redo and resetImage leaves the history empty, the cursor
\* at -1 and the working image None.
EmptyStateNoOps ==
    (/\ ev.name \in SliderHandlers \cup DiscreteHandlers
                     \cup {"undo", "redo", "resetImage"}
     /\ ev.pre_history = <<>>
     /\ ev.pre_index = -1
     /\ ev.pre_image = None) =>
        /\ history = <<>>
        /\ current_index = -1
        /\ current_image = None
        /\ ~ev.ok

\* C22 witness: the Grayscale button pressed with no image loaded, after
\* other events that did nothing.
EmptyStateNoOpsWitness ==
    /\ ev.name = "applyGrayscale"
    /\ ev.pre_history = <<>>
    /\ ev.pre_image = None
    /\ events >= 3
    /\ blurScale = 4

WorkingImageIffHistory ==
    /\ (current_image = None) <=> (history = <<>>)
    /\ (ev.name \in SliderHandlers /\ ev.pre_image # None) =>
          /\ ev.ok
          /\ get_first_state # None

\* C28 witness: with the default capacity, the brightness slider moved on
\* a loaded image as the third event or later.
WorkingImageIffHistoryWitness ==
    /\ max_history = DefaultMaxHistory
    /\ ev.name = "adjustBrightness"
    /\ ev.ok
    /\ events >= 3
    /\ current_image # None

\* C29: a failed openImage (dialog cancelled, or the file cannot be
\* decoded) changes nothing: the history sequence, the cursor, the working
\* image, the filename and the slider values are as before.
FailedOpenChangesNothing ==
    (ev.name = "openImage" /\ (ev.arg = "" \/ imread(ev.arg) = None)) =>
        /\ ~ev.ok
        /\ EventChangedNothing
        /\ filename = ev.pre_filename

\* C29 witness: a file that cannot be decoded, chosen while an image with
\* two snapshots and a preview was open.
FailedOpenChangesNothingWitness ==
    /\ ev.name = "openImage"
    /\ ev.arg = "notes.txt"
    /\ filename = "a.png"
    /\ Len(history) = 2
    /\ current_index = 1
    /\ brightnessScale = 20

----------------------------------------------------------------------------
(* Properties of runs of undo and redo, checked under RunSpec.             *)

\* The snapshot that was current when the run started.
RunStartState == script.history[script.index + 1]

\* C27: undo/redo round trip. Where can_undo() is True, undo() followed at
\* once by redo() restores the cursor, returns from redo() the snapshot
\* that was current before the undo, and leaves the history sequence
\* unchanged; where can_redo() is True, redo() followed by undo() restores
\* the cursor and the current snapshot.
UndoRedoRoundTrip ==
    (pc = 2 /\ script.kind \in {"undo_redo", "redo_undo"}) =>
        /\ current_index = script.index
        /\ history = script.history
        /\ last.ret = RunStartState
        /\ get_current_state = RunStartState

\* C27 witness: undo then redo from the end of a store of three snapshots,
\* the last two different.
UndoRedoRoundTripWitness ==
    /\ pc = 2
    /\ script.kind = "undo_redo"
    /\ script.index = 2
    /\ Len(history) = 3
    /\ history[2] # history[3]
    /\ last.op = "redo"
    /\ last.ret = history[3]

\* C30: repeated undo terminates at the oldest retained snapshot. From a
\* state with cursor c >= 0, consecutive undo() calls succeed exactly c
\* times and then return None with the cursor at 0; consecutive redo()
\* calls succeed exactly len(_history) - 1 - c times and then return None
\* with the cursor at the last index; at most max_history - 1 undo steps
\* are ever available.
RepeatedUndoTerminates ==
    /\ (pc >= 1 /\ script.kind = "undos") =>
          /\ history = script.history
          /\ script.index <= max_history - 1
          /\ IF pc <= script.index
             THEN /\ last.ret = history[script.index - pc + 1]
                  /\ current_index = script.index - pc
             ELSE /\ last.ret = None
                  /\ current_index = 0
    /\ (pc >= 1 /\ script.kind = "redos") =>
          /\ history = script.history
          /\ IF pc <= Len(history) - 1 - script.index
             THEN /\ last.ret = history[script.index + pc + 1]
                  /\ current_index = script.index + pc
             ELSE /\ last.ret = None
                  /\ current_index = Len(history) - 1

\* C30 witness: from cursor 2, two undos succeeded and two more returned
\* None.
RepeatedUndoTerminatesWitness ==
    /\ pc = 4
    /\ script.kind = "undos"
    /\ script.index = 2
    /\ current_index = 0
    /\ last.ret = None

----------------------------------------------------------------------------
(* Properties of the pixel primitives, checked under BlurSpec and          *)
(* ContrastSpec.                                                           *)

\* The kernel size of the blur that produced image.
KernelOf(image) == image[Len(image)][2]

ClampedToRange(value) ==
    IF value > ContrastTo THEN ContrastTo
    ELSE IF value < ContrastFrom THEN ContrastFrom
    ELSE value

\* The scaling factor, in hundredths, that produced image.
AlphaOf(image) == image[Len(image)][2]

\* C26: out-of-range contrast values are clamped to the declared range
\* [-100, 100]. For every integer v, the scaling factor adjust_contrast uses
\* for v > 100 is the factor for v = 100, and for v < -100 the factor for
\* v = -100.
ContrastClampedToRange ==
    last.op = "adjust_contrast" =>
        AlphaOf(last.ret) = contrast_alpha(ClampedToRange(last.arg))

----------------------------------------------------------------------------
(* Property of the store's buffers, checked under AliasSpec.               *)

\* C23: snapshots are immutable and never aliased. add_state stores a
\* private copy, and undo, redo, get_current_state and get_first_state
\* return fresh copies, so no buffer a caller holds is a stored snapshot;
\* whatever the callers write into the buffers they passed in or received,
\* every stored snapshot has the pixels it was committed with.
SnapshotsNeverAliased ==
    /\ \A k \in 1..Len(refs) : refs[k] \notin held
    /\ Len(refs) = Len(history)
    /\ \A k \in 1..Len(refs) : heap[refs[k]].pixels = history[k]

\* C23 witness: the caller has written into a buffer it had passed to
\* add_state and into one it got back from the store, both copies of the
\* same stored snapshot.
SnapshotsNeverAliasedWitness ==
    \E k \in 1..Len(refs) : \E passed, received \in held :
        /\ heap[refs[k]].copy_of = passed
        /\ heap[received].copy_of = refs[k]
        /\ heap[passed].pixels # heap[refs[k]].pixels
        /\ heap[received].pixels # heap[refs[k]].pixels

----------------------------------------------------------------------------
(* Property of the controller checked under LongSpec.                      *)

\* C16: Reset-to-original returns the original image. After openImage
\* loaded image I and any sequence of edits, undos and redos, a confirmed
\* resetImage sets the working image to I, the buffer read from the file.
ResetRestoresLoaded ==
    (ev.name = "resetImage" /\ ev.ok) => current_image = imread(filename)

====
